---- MODULE Spec2Model ----
(***************************************************************************)
(* Model of crate/client/sqlalchemy/compiler.py: the partial-update        *)
(* rewrite of UPDATE parameters (rewrite_update, crate_before_execute),    *)
(* the UPDATE and INSERT compilers of CrateCompiler, the crud parameter    *)
(* resolvers and the DDL table-options compiler.                           *)
(*                                                                         *)
(* Python values are modelled as follows.                                  *)
(*   - a dict is a sequence of [k, v] records in insertion order with      *)
(*     pairwise distinct keys (Python dicts iterate in insertion order);   *)
(*   - a str is a sequence of character chunks ("doc", "['", "a", "']");   *)
(*     `'[' in k` is membership of the chunk "['" (no other chunk holds a  *)
(*     bracket);                                                           *)
(*   - a dict key is [isstr, s]: a str, or a Column object named s;        *)
(*   - a bound value is [kind, n, items, changed, deleted]: a scalar n,    *)
(*     None, or a MutableDict with its items and its two tracking sets;    *)
(*   - SQL text is a sequence of chunks, `+` and join are concatenation;    *)
(*   - a list object lives in heap under its index, with the compiler that *)
(*     created it (0: the class body); an attribute holds such an index.   *)
(***************************************************************************)
EXTENDS Integers, Sequences, FiniteSets, TLC

VARIABLES sa14, docs, nmut, op, arg, ret, heap, compilers

vars == <<sa14, docs, nmut, op, arg, ret, heap, compilers>>

\* ------------------------------------------------------------------ bounds
MaxRows == 2
MaxMutations == 2

\* ------------------------------------------------------------ python dicts
HasKey(d, k) == \E i \in 1..Len(d) : d[i].k = k

Get(d, k) == d[CHOOSE i \in 1..Len(d) : d[i].k = k].v

\* d[k] = v
Put(d, k, v) ==
  IF HasKey(d, k)
  THEN [i \in 1..Len(d) |-> IF d[i].k = k THEN [k |-> k, v |-> v] ELSE d[i]]
  ELSE Append(d, [k |-> k, v |-> v])

\* del d[k]
Del(d, k) == SelectSeq(d, LAMBDA e : e.k # k)

Keys(d) == {d[i].k : i \in 1..Len(d)}

KeySeq(d) == [i \in 1..Len(d) |-> d[i].k]

\* d.copy(); d.update(e)
RECURSIVE Update(_, _)
Update(d, e) == IF e = <<>> THEN d ELSE Update(Put(d, e[1].k, e[1].v), Tail(e))

\* an optional dict: None or a dict
NoneDict == [none |-> TRUE, d |-> <<>>]

Some(d) == [none |-> FALSE, d |-> d]

\* Python truthiness of an optional dict: None and {} are falsy
Truthy(o) == ~o.none /\ o.d # <<>>

\* ------------------------------------------------------------- keys, values
Str(s) == [isstr |-> TRUE, s |-> s]

ColumnKey(name) == [isstr |-> FALSE, s |-> <<name>>]

Scalar(n) == [kind |-> "scalar", n |-> n, items |-> <<>>, changed |-> {}, deleted |-> {}]

None == [kind |-> "none", n |-> 0, items |-> <<>>, changed |-> {}, deleted |-> {}]

\* crud.REQUIRED, the sentinel of a column key that has no value yet
Required == [kind |-> "required", n |-> 0, items |-> <<>>, changed |-> {}, deleted |-> {}]

\* an optional list: None or a list
NoneList == [none |-> TRUE, l |-> <<>>]

SomeList(l) == [none |-> FALSE, l |-> l]

\* the keys of a document; "" is the empty string, which Python treats as false
SubKeys == {"", "a", "b"}

\* the value a mutation stores; every loaded item holds 1
SubVals == {2}

\* MutableDict as loaded from the database: nothing changed, nothing deleted
Loaded ==
  [kind |-> "doc", n |-> 0,
   items |-> <<[k |-> "", v |-> Scalar(1)], [k |-> "a", v |-> Scalar(1)],
               [k |-> "b", v |-> Scalar(1)]>>,
   changed |-> {}, deleted |-> {}]

\* MutableDict.__setitem__ followed by on_key_changed
SetItem(d, k, v) ==
  [d EXCEPT !.items = Put(d.items, k, Scalar(v)),
            !.changed = d.changed \cup {k},
            !.deleted = d.deleted \ {k}]

\* MutableDict.__delitem__ on the root object
DelItem(d, k) ==
  [d EXCEPT !.items = Del(d.items, k),
            !.deleted = d.deleted \cup {k}]

\* any(keys): true when some key is truthy
AnyTruthy(keys) == \E k \in keys : k # ""

\* the orders in which a set of document keys may be iterated
Orders(S) == {o \in [1..Cardinality(S) -> S] :
                \A i, j \in DOMAIN o : i # j => o[i] # o[j]}

\* "{0}['{1}']".format(key, subkey)
PathKey(key, subkey) == Str(key.s \o <<"['", subkey, "']">>)

\* ------------------------------------------------------------- statements
\* An Update statement. gen counts the generative copies made of it, so two
\* statements are the same object only when they agree on gen as well.
\* A table is the sequence of its columns, each [name, default]: default says
\* that the column has a client-side default.
Column(name, default) == [name |-> name, default |-> default]

TableT == <<Column("x", FALSE), Column("doc", FALSE)>>

\* A statement: parameters are the values of a single-row statement (None when
\* it has none); rows are the parameter sets of a multi-row insert
\* (_has_multi_parameters); select_names are the columns of INSERT ... SELECT.
Statement(isinsert, table, params, rows, select_names, where, extra) ==
  [gen |-> 0, isinsert |-> isinsert, table |-> table, parameters |-> params,
   has_multi |-> rows # <<>>, rows |-> rows, select_names |-> select_names,
   crate_specific |-> FALSE, where |-> where, extra_froms |-> extra,
   prefixes |-> FALSE, returning |-> FALSE]

Stmt(params, where, extra) ==
  Statement(FALSE, TableT, params, <<>>, <<>>, where, extra)

\* Update.values(d): a copy with d merged into its parameters
Values(stmt, d) ==
  [stmt EXCEPT !.gen = stmt.gen + 1,
               !.parameters = IF stmt.parameters.none THEN Some(d)
                              ELSE Some(Update(stmt.parameters.d, d))]

\* ---------------------------------------------------------- rewrite_update
\* lines 57-60: the value is passed through whole
PassThrough(val) ==
  val.kind # "doc" \/ (~AnyTruthy(val.changed) /\ ~AnyTruthy(val.deleted))

\* lines 64-66: one entry per item whose key is in _changed_keys
RECURSIVE ChangedEntries(_, _, _, _)
ChangedEntries(newparams, key, val, items) ==
  IF items = <<>> THEN newparams
  ELSE ChangedEntries(
         IF items[1].k \in val.changed
         THEN Put(newparams, PathKey(key, items[1].k), items[1].v)
         ELSE newparams,
         key, val, Tail(items))

\* lines 67-68: one None entry per deleted key, in the set's iteration order
RECURSIVE DeletedEntries(_, _, _, _)
DeletedEntries(newparams, key, val, ord) ==
  IF ord = <<>> THEN newparams
  ELSE DeletedEntries(
         IF ord[1] \in val.deleted
         THEN Put(newparams, PathKey(key, ord[1]), None)
         ELSE newparams,
         key, val, Tail(ord))

\* lines 55-68: the rewritten mapping of one row
RECURSIVE RewriteRow(_, _, _)
RewriteRow(newparams, _params, ord) ==
  IF _params = <<>> THEN newparams
  ELSE LET key == _params[1].k
           val == _params[1].v
       IN RewriteRow(
            IF PassThrough(val) THEN Put(newparams, key, val)
            ELSE DeletedEntries(
                   ChangedEntries(newparams, key, val, val.items), key, val, ord),
            Tail(_params), ord)

\* lines 54-69
RewriteRows(_multiparams, ord) ==
  [i \in 1..Len(_multiparams) |-> RewriteRow(<<>>, _multiparams[i], ord)]

\* parameters are passed either as a dict or as a list of dicts
PDict(d) == [kind |-> "dict", d |-> d, l |-> <<>>]

PList(l) == [kind |-> "list", d |-> <<>>, l |-> l]

Returned(clause, multiparams, params) ==
  [exc |-> "none", clause |-> clause, multiparams |-> multiparams, params |-> params]

Raised(exc, clause) ==
  [exc |-> exc, clause |-> clause, multiparams |-> <<>>, params |-> PDict(<<>>)]

\* lines 50-73. multiparams is a tuple whose first element is the list of rows.
rewrite_update(clauseelement, multiparams, params, ord) ==
  IF Len(multiparams) = 0 THEN Raised("IndexError", clauseelement)
  ELSE IF Len(multiparams[1]) = 0
  THEN Returned(clauseelement, multiparams, params)
  ELSE LET newmultiparams == RewriteRows(multiparams[1], ord)
           clause == [Values(clauseelement, newmultiparams[1])
                        EXCEPT !.crate_specific = TRUE]
       IN Returned(clause, <<newmultiparams>>, params)

\* lines 76-92. is_crate_update: the connection's dialect is CrateDialect and
\* the statement is an Update (line 79).
crate_before_execute(is_crate_update, clauseelement, multiparams, params, ord) ==
  IF ~is_crate_update THEN Returned(clauseelement, multiparams, params)
  ELSE IF sa14
  THEN LET r == rewrite_update(clauseelement, <<<<params.d>>>>, PDict(<<>>), ord)
       IN IF r.exc # "none" THEN r
          ELSE Returned(r.clause, <<>>, PList(r.multiparams[1]))
  ELSE rewrite_update(clauseelement, multiparams, params, ord)

\* ------------------------------------------------ crud parameter resolvers
\* A crud parameter entry: the column c, the rendered bind text v, and the
\* value val the bind carries.
Entry(c, v, val) == [c |-> c, v |-> v, val |-> val]

\* _column_as_key: the name of a Column, a str as it is
ColumnAsKey(k) == k.s

\* lines 417-419 and 630-637: a required bind for every table column
AllColumnsRequired(stmt) ==
  [i \in 1..Len(stmt.table) |-> Entry(stmt.table[i].name, "?", Required)]

\* lines 441-444 and 656-664: REQUIRED for every column key not in skip
RECURSIVE SeedRequired(_, _, _)
SeedRequired(parameters, keys, skip) ==
  IF keys = <<>> THEN parameters
  ELSE SeedRequired(
         IF keys[1] \in skip THEN parameters
         ELSE Put(parameters, ColumnAsKey(keys[1]), Required),
         Tail(keys), skip)

\* crud._get_stmt_parameters_params (lines 450-452, 670-678):
\* parameters.setdefault(colkey, v) for every statement parameter
RECURSIVE SetDefaults(_, _)
SetDefaults(parameters, tuples) ==
  IF tuples = <<>> THEN parameters
  ELSE SetDefaults(
         IF HasKey(parameters, ColumnAsKey(tuples[1].k)) THEN parameters
         ELSE Append(parameters, [k |-> ColumnAsKey(tuples[1].k), v |-> tuples[1].v]),
         Tail(tuples))

\* crud._scan_cols (lines 456-458, 711-722): the table's columns in table
\* order; a column whose key is in parameters takes that value, a column of
\* an INSERT with a client-side default is prefetched, any other is skipped
RECURSIVE ScanCols(_, _, _)
ScanCols(stmt, cols, parameters) ==
  IF cols = <<>> THEN <<>>
  ELSE LET c == cols[1]
           rest == ScanCols(stmt, Tail(cols), parameters)
       IN IF HasKey(parameters, <<c.name>>)
          THEN <<Entry(c.name, "?", Get(parameters, <<c.name>>))>> \o rest
          ELSE IF stmt.isinsert /\ c.default
          THEN <<Entry(c.name, "?", Scalar(0))>> \o rest
          ELSE rest

\* crud._scan_insert_from_select_cols (lines 698-709): the named columns in
\* the order of the names, each bound to no value
RECURSIVE ScanInsertFromSelectCols(_, _)
ScanInsertFromSelectCols(names, parameters) ==
  IF names = <<>> THEN <<>>
  ELSE (IF HasKey(parameters, <<names[1]>>)
        THEN <<Entry(names[1], "", None)>> ELSE <<>>)
       \o ScanInsertFromSelectCols(Tail(names), parameters)

\* crud._extend_values_for_multiparams (lines 461-462, 740-742): row 0's
\* entries, then for every further row the same columns with that row's values
ExtendValuesForMultiparams(stmt, values) ==
  [r \in 1..Len(stmt.rows) |->
     IF r = 1 THEN values
     ELSE [i \in 1..Len(values) |->
             IF HasKey(stmt.rows[r], Str(<<values[i].c>>))
             THEN Entry(values[i].c, "?", Get(stmt.rows[r], Str(<<values[i].c>>)))
             ELSE values[i]]]

\* what a resolver returns: the entries of row 0 (values) and, for a multi-row
\* statement, one entry list per row (rows); scanned is the local list
\* `values` as the column scan left it; exc names the exception raised
Resolved(scanned, values, rows) ==
  [exc |-> "none", scanned |-> scanned, values |-> values, rows |-> rows]

ResolveFailed(exc, scanned) ==
  [exc |-> exc, scanned |-> scanned, values |-> <<>>, rows |-> <<>>]

\* lines 404-464. column_keys is compiler.column_keys.
_get_crud_params(column_keys, stmt) ==
  IF column_keys.none /\ ~stmt.has_multi /\ stmt.parameters.none
  THEN Resolved(AllColumnsRequired(stmt), AllColumnsRequired(stmt), <<>>)
  ELSE LET stmt_parameters == IF stmt.has_multi THEN Some(stmt.rows[1])
                              ELSE stmt.parameters
           skip == IF Truthy(stmt_parameters) THEN Keys(stmt_parameters.d) ELSE {}
           seeded == IF column_keys.none THEN <<>>
                     ELSE SeedRequired(<<>>, column_keys.l, skip)
           parameters == IF stmt_parameters.none THEN seeded
                         ELSE SetDefaults(seeded, stmt_parameters.d)
           values == ScanCols(stmt, stmt.table, parameters)
       IN IF stmt.has_multi
          THEN Resolved(values, values, ExtendValuesForMultiparams(stmt, values))
          ELSE Resolved(values, values, <<>>)

\* lines 724-737 as they would run outside the string literal: a key of the
\* statement parameters that no column consumed
UnconsumedCheckExecuted(spd, stmt) ==
  /\ Truthy(spd)
  /\ \E k \in Keys(spd.d) :
       \A i \in 1..Len(stmt.table) : ColumnAsKey(k) # <<stmt.table[i].name>>

\* lines 724-737: the check for unconsumed column names stands inside a
\* string literal and is never executed
UnconsumedCheck(spd, stmt) == FALSE

\* line 744 without the executemany condition
ConvertsToDefaultAlways(values, for_executemany) == values = <<>>

\* line 744: `elif not values and compiler.for_executemany`
ConvertsToDefault(values, for_executemany) == values = <<>> /\ for_executemany

\* lines 591-756. The compile state is read off the statement: _no_parameters
\* is "no values, no rows, no select names", _dict_parameters its values.
_get_crud_params_14(column_keys, for_executemany, stmt) ==
  IF column_keys.none /\ ~stmt.has_multi /\ stmt.parameters.none
  THEN Resolved(AllColumnsRequired(stmt), AllColumnsRequired(stmt), <<>>)
  ELSE LET spd == IF stmt.has_multi THEN Some(stmt.rows[1])
                  ELSE IF Truthy(stmt.parameters) THEN stmt.parameters
                  ELSE NoneDict
           seeded == IF column_keys.none THEN <<>>
                     ELSE IF Truthy(spd)
                     THEN SeedRequired(<<>>, column_keys.l, Keys(spd.d))
                     ELSE SeedRequired(<<>>, column_keys.l, {})
           parameters == IF spd.none THEN seeded ELSE SetDefaults(seeded, spd.d)
           values == IF stmt.isinsert /\ stmt.select_names # <<>>
                     THEN ScanInsertFromSelectCols(stmt.select_names, parameters)
                     ELSE ScanCols(stmt, stmt.table, parameters)
       IN IF UnconsumedCheck(spd, stmt)
          THEN ResolveFailed("CompileError", values)
          ELSE IF stmt.has_multi
          THEN Resolved(values, values, ExtendValuesForMultiparams(stmt, values))
          ELSE IF ConvertsToDefault(values, for_executemany)
          THEN IF stmt.table = <<>> THEN ResolveFailed("IndexError", values)
               ELSE Resolved(values,
                             <<Entry(stmt.table[1].name, "DEFAULT", None)>>, <<>>)
          ELSE Resolved(values, values, <<>>)

\* ------------------------------------------------------- UPDATE compiler
RECURSIVE Join(_, _)
Join(parts, sep) ==
  IF parts = <<>> THEN <<>>
  ELSE IF Len(parts) = 1 THEN parts[1]
  ELSE parts[1] \o <<sep>> \o Join(Tail(parts), sep)

\* `isinstance(k, str) and '[' in k` (lines 365, 540)
IsPathKey(k) == k.isstr /\ \E i \in 1..Len(k.s) : k.s[i] = "['"

\* lines 358-362 and 534-537: one assignment per crud parameter entry
CrudClauses(crud_params) ==
  [i \in 1..Len(crud_params) |-> <<crud_params[i].c, " = ", crud_params[i].v>>]

\* lines 364-367 and 539-543 without the test for '[': one assignment per
\* key of the parameters
PathClausesEveryKey(parameters) ==
  [i \in 1..Len(parameters) |-> parameters[i].k.s \o <<" = ", "?">>]

\* lines 364-367 and 539-543: one assignment per path key of the parameters
RECURSIVE PathClauses(_)
PathClauses(parameters) ==
  IF parameters = <<>> THEN <<>>
  ELSE (IF IsPathKey(parameters[1].k)
        THEN <<parameters[1].k.s \o <<" = ", "?">>>> ELSE <<>>)
       \o PathClauses(Tail(parameters))

RECURSIVE PathBinds(_)
PathBinds(parameters) ==
  IF parameters = <<>> THEN <<>>
  ELSE (IF IsPathKey(parameters[1].k) THEN <<parameters[1].v>> ELSE <<>>)
       \o PathBinds(Tail(parameters))

CrudBinds(crud_params) == [i \in 1..Len(crud_params) |-> crud_params[i].val]

\* what a compilation returns: the path taken, the resolver's entries, the
\* assignments of the SET clause, the SQL text and the bind values in order
Compiled(path, crud_params, set_clauses, text, binds) ==
  [exc |-> "none", path |-> path, crud_params |-> crud_params,
   set_clauses |-> set_clauses, text |-> text, binds |-> binds]

CompileFailed(path, exc) ==
  [exc |-> exc, path |-> path, crud_params |-> <<>>, set_clauses |-> <<>>,
   text |-> <<>>, binds |-> <<>>]

\* lines 389-392 and 565-570
WhereText(update_stmt) == IF update_stmt.where THEN <<" WHERE ", "w">> ELSE <<>>

\* the text of an UPDATE with the given SET assignments. SQLCompiler's
\* update_from_clause, which the dialect does not override, raises for a
\* statement with extra FROM tables (lines 379-385, 554-561).
UpdateText(path, update_stmt, crud_params, set_clauses, binds) ==
  IF update_stmt.extra_froms THEN CompileFailed(path, "NotImplementedError")
  ELSE Compiled(path, crud_params, set_clauses,
                <<"UPDATE ", "t", " SET ">> \o Join(set_clauses, ", ")
                  \o WhereText(update_stmt),
                binds)

\* line 324: SQLCompiler.visit_update, the inherited rendering
super_visit_update(update_stmt, column_keys) ==
  LET crud_params == _get_crud_params(column_keys, update_stmt).values
  IN UpdateText("default", update_stmt, crud_params, CrudClauses(crud_params),
                CrudBinds(crud_params))

\* lines 466-588
visit_update_14(update_stmt, column_keys, for_executemany) ==
  LET r == _get_crud_params_14(column_keys, for_executemany, update_stmt)
  IN IF r.exc # "none" THEN CompileFailed("custom", r.exc)
     ELSE IF update_stmt.parameters.none
     THEN CompileFailed("custom", "AttributeError")
     ELSE UpdateText("custom", update_stmt, r.values,
                     CrudClauses(r.values) \o PathClauses(update_stmt.parameters.d),
                     CrudBinds(r.values) \o PathBinds(update_stmt.parameters.d))

\* lines 313-402 with line 322 reading the marker only
visit_update_by_marker(update_stmt, column_keys, for_executemany) ==
  IF sa14 THEN visit_update_14(update_stmt, column_keys, for_executemany)
  ELSE IF ~update_stmt.crate_specific
  THEN super_visit_update(update_stmt, column_keys)
  ELSE LET crud_params == _get_crud_params(column_keys, update_stmt).values
       IN UpdateText("custom", update_stmt, crud_params,
                     CrudClauses(crud_params) \o PathClauses(update_stmt.parameters.d),
                     CrudBinds(crud_params) \o PathBinds(update_stmt.parameters.d))

\* lines 313-402
visit_update(update_stmt, column_keys, for_executemany) ==
  IF sa14 THEN visit_update_14(update_stmt, column_keys, for_executemany)
  ELSE IF ~Truthy(update_stmt.parameters) /\ ~update_stmt.crate_specific
  THEN super_visit_update(update_stmt, column_keys)
  ELSE LET crud_params == _get_crud_params(column_keys, update_stmt).values
       IN UpdateText("custom", update_stmt, crud_params,
                     CrudClauses(crud_params) \o PathClauses(update_stmt.parameters.d),
                     CrudBinds(crud_params) \o PathBinds(update_stmt.parameters.d))

\* ------------------------------------------------------- INSERT compiler
\* line 32
INSERT_SELECT_WITHOUT_PARENTHESES_MIN_VERSION == <<1, 0, 1>>

\* Python's >= on tuples of integers: the first differing element decides, a
\* proper prefix is the smaller
RECURSIVE TupleGE(_, _)
TupleGE(a, b) ==
  IF b = <<>> THEN TRUE
  ELSE IF a = <<>> THEN FALSE
  ELSE IF a[1] # b[1] THEN a[1] > b[1]
  ELSE TupleGE(Tail(a), Tail(b))

\* line 215 with > for >=
DelegatesInsertAbove(dialect) ==
  /\ TupleGE(dialect.server_version_info, INSERT_SELECT_WITHOUT_PARENTHESES_MIN_VERSION)
  /\ dialect.server_version_info # INSERT_SELECT_WITHOUT_PARENTHESES_MIN_VERSION

\* line 215: the server takes INSERT ... SELECT without parentheses
DelegatesInsert(dialect) ==
  TupleGE(dialect.server_version_info, INSERT_SELECT_WITHOUT_PARENTHESES_MIN_VERSION)

\* the entries of a multi-row statement are a list of rows, which is never
\* empty; those of any other statement are the entries themselves
NoCrudParams(insert_stmt, crud_params) ==
  IF insert_stmt.has_multi THEN crud_params.rows = <<>>
  ELSE crud_params.values = <<>>

\* lines 231-233
EmptyInsertUnsupported(insert_stmt, dialect, crud_params) ==
  /\ NoCrudParams(insert_stmt, crud_params)
  /\ ~dialect.supports_default_values
  /\ ~dialect.supports_empty_insert

\* lines 238-239 with the dialect's flag read the wrong way round
MultiValuesFlagInverted(insert_stmt, dialect) ==
  insert_stmt.has_multi /\ dialect.supports_multivalues_insert

\* lines 238-239
MultiValuesUnsupported(insert_stmt, dialect) ==
  insert_stmt.has_multi /\ ~dialect.supports_multivalues_insert

\* the SELECT of an INSERT ... SELECT; the column scan appends a bind for
\* every column with a default that the names leave out
DefaultsLeftOut(stmt) ==
  SelectSeq(stmt.table, LAMBDA c : c.default /\ \A i \in 1..Len(stmt.select_names) :
                                                  stmt.select_names[i] # c.name)

SelectText(stmt) ==
  <<"SELECT ">>
  \o Join([i \in 1..Len(stmt.select_names) |-> <<stmt.select_names[i]>>]
          \o [i \in 1..Len(DefaultsLeftOut(stmt)) |-> <<"?">>], ", ")
  \o <<" FROM ", "s">>

\* line 229: SQLAlchemy's crud._get_crud_params for an INSERT. It differs from
\* the dialect's copy in scanning the named columns of an INSERT ... SELECT
\* and in raising CompileError for unconsumed column names.
crud_get_crud_params(column_keys, stmt) ==
  IF column_keys.none /\ ~stmt.has_multi /\ stmt.parameters.none
  THEN Resolved(AllColumnsRequired(stmt), AllColumnsRequired(stmt), <<>>)
  ELSE LET stmt_parameters == IF stmt.has_multi THEN Some(stmt.rows[1])
                              ELSE stmt.parameters
           skip == IF Truthy(stmt_parameters) THEN Keys(stmt_parameters.d) ELSE {}
           seeded == IF column_keys.none THEN <<>>
                     ELSE SeedRequired(<<>>, column_keys.l, skip)
           parameters == IF stmt_parameters.none THEN seeded
                         ELSE SetDefaults(seeded, stmt_parameters.d)
           values ==
             IF stmt.select_names # <<>>
             THEN ScanInsertFromSelectCols(stmt.select_names, parameters)
                  \o [i \in 1..Len(DefaultsLeftOut(stmt)) |->
                        Entry(DefaultsLeftOut(stmt)[i].name, "", None)]
             ELSE ScanCols(stmt, stmt.table, parameters)
           unconsumed ==
             {k \in (IF stmt_parameters.none THEN {} ELSE Keys(stmt_parameters.d)) :
                \A i \in 1..Len(values) : <<values[i].c>> # ColumnAsKey(k)}
       IN IF unconsumed # {} THEN ResolveFailed("CompileError", values)
          ELSE IF stmt.has_multi
          THEN Resolved(values, values, ExtendValuesForMultiparams(stmt, values))
          ELSE Resolved(values, values, <<>>)

\* what visit_insert returns: the path taken, the resolver's result, the text
Inserted(path, crud_params, text) ==
  [exc |-> "none", path |-> path, crud_params |-> crud_params, text |-> text]

InsertFailed(path, exc, crud_params) ==
  [exc |-> exc, path |-> path, crud_params |-> crud_params, text |-> <<>>]

\* lines 194-199
returning_clause(stmt) == <<"RETURNING ", "x">>

\* lines 251-311, and the same assembly in SQLCompiler.visit_insert, which
\* differs in how it writes the SELECT: open is " (" and close ")" here,
\* " " and nothing there
InsertText(insert_stmt, dialect, precedes, crud_params, open, close) ==
  LET single == crud_params.values
      columns == IF single # <<>> \/ ~dialect.supports_default_values
                 THEN <<" (">> \o Join([i \in 1..Len(single) |-> <<single[i].c>>], ", ")
                      \o <<")">>
                 ELSE <<>>
      returning == IF insert_stmt.returning THEN <<" ">> \o returning_clause(insert_stmt)
                   ELSE <<>>
      row(r) == <<"(">> \o Join([i \in 1..Len(r) |-> <<r[i].v>>], ", ") \o <<")">>
      body ==
        IF insert_stmt.select_names # <<>>
        THEN <<open>> \o SelectText(insert_stmt) \o close
        ELSE IF NoCrudParams(insert_stmt, crud_params) /\ dialect.supports_default_values
        THEN <<" DEFAULT VALUES">>
        ELSE IF insert_stmt.has_multi
        THEN <<" VALUES ">>
             \o Join([j \in 1..Len(crud_params.rows) |-> row(crud_params.rows[j])], ", ")
        ELSE <<" VALUES ">> \o row(crud_params.values)
  IN <<"INSERT ">> \o (IF insert_stmt.prefixes THEN <<"PREFIX ">> ELSE <<>>)
     \o <<"INTO ", "t">> \o columns
     \o (IF precedes THEN returning ELSE <<>>)
     \o body
     \o (IF precedes THEN <<>> ELSE returning)

\* line 216: SQLCompiler.visit_insert, the inherited compilation, which
\* reports an unsupported insert as a CompileError
super_visit_insert(insert_stmt, dialect, column_keys, precedes) ==
  LET crud_params == crud_get_crud_params(column_keys, insert_stmt)
  IN IF crud_params.exc # "none"
     THEN InsertFailed("super", crud_params.exc, crud_params)
     ELSE IF \/ EmptyInsertUnsupported(insert_stmt, dialect, crud_params)
             \/ MultiValuesUnsupported(insert_stmt, dialect)
     THEN InsertFailed("super", "CompileError", crud_params)
     ELSE Inserted("super", crud_params,
                   InsertText(insert_stmt, dialect, precedes, crud_params, " ", <<>>))

\* lines 201-311. precedes is compiler.returning_precedes_values.
visit_insert(insert_stmt, dialect, column_keys, precedes) ==
  IF DelegatesInsert(dialect)
  THEN super_visit_insert(insert_stmt, dialect, column_keys, precedes)
  ELSE IF sa14
  THEN InsertFailed("legacy", "DeprecationWarning", ResolveFailed("none", <<>>))
  ELSE LET crud_params == crud_get_crud_params(column_keys, insert_stmt)
       IN IF crud_params.exc # "none"
          THEN InsertFailed("legacy", crud_params.exc, crud_params)
          ELSE IF EmptyInsertUnsupported(insert_stmt, dialect, crud_params)
          THEN InsertFailed("legacy", "NotImplementedError", crud_params)
          ELSE IF MultiValuesUnsupported(insert_stmt, dialect)
          THEN InsertFailed("legacy", "NotImplementedError", crud_params)
          ELSE Inserted("legacy", crud_params,
                        InsertText(insert_stmt, dialect, precedes, crud_params,
                                   " (", <<")">>))

\* ------------------------------------------- compiler instances, their lists
\* the compiler instances that compile concurrently
Compilers == {1, 2}

\* the accumulator attributes of a compiler
Accumulators ==
  {"prefetch", "postfetch", "insert_prefetch", "update_prefetch", "returning"}

\* a new list `[]`, created by compiler owner (0: by the class body)
ListObject(owner) == [owner |-> owner, items |-> <<>>]

\* line 179: CrateCompiler.prefetch, the list of the class body, is the first
\* object of the heap
ClassAttribute(name) == IF name = "prefetch" THEN 1 ELSE 0

\* a compiler instance before it compiles: no instance attribute is set (0),
\* it has touched no list and seen no entry
NewCompiler ==
  [pc |-> "start", attrs |-> [a \in Accumulators |-> 0], touched |-> {}, seen |-> {}]

\* Python attribute lookup compiler.<name>: the instance attribute when it is
\* set, the class attribute otherwise
Lookup(c, name) ==
  IF compilers[c].attrs[name] # 0 THEN compilers[c].attrs[name]
  ELSE ClassAttribute(name)

\* ------------------------------------------------- the update pipeline
\* the statements handed to the hook and to the compiler: the ORM's UPDATE
\* without values, and UPDATEs built with .values(...)
X == Str(<<"x">>)

Doc == Str(<<"doc">>)

UserStatements ==
  { Stmt(NoneDict, TRUE, FALSE),
    Stmt(Some(<<[k |-> X, v |-> Scalar(1)]>>), TRUE, FALSE),
    Stmt(Some(<<[k |-> ColumnKey("x"), v |-> Scalar(1)]>>), FALSE, TRUE),
    Stmt(Some(<<[k |-> PathKey(Doc, "a"), v |-> Scalar(2)],
               [k |-> X, v |-> Scalar(1)]>>), FALSE, FALSE) }

\* the parameter row flushed for one object: its document column, with or
\* without a scalar column beside it, or the scalar column alone
Shapes == {"doc", "x_doc", "doc_x", "x"}

Row(shape, d) ==
  CASE shape = "doc" -> <<[k |-> Doc, v |-> d]>>
    [] shape = "x_doc" -> <<[k |-> X, v |-> Scalar(1)], [k |-> Doc, v |-> d]>>
    [] shape = "doc_x" -> <<[k |-> Doc, v |-> d], [k |-> X, v |-> Scalar(1)]>>
    [] OTHER -> <<[k |-> X, v |-> Scalar(1)]>>

Rows(shape) == [i \in 1..Len(docs) |-> Row(shape, docs[i])]

\* the first parameter row the hook or rewrite_update returned
FirstRow(r) ==
  IF r.params.kind = "list" /\ r.params.l # <<>> THEN r.params.l[1]
  ELSE IF r.params.kind = "dict" /\ r.params.d # <<>> THEN r.params.d
  ELSE IF r.multiparams # <<>> /\ r.multiparams[1] # <<>> THEN r.multiparams[1][1]
  ELSE <<>>

\* the keys some document of the session has deleted
Deleted == UNION {docs[i].deleted : i \in 1..Len(docs)}

Init ==
  /\ sa14 \in BOOLEAN
  /\ docs = <<>>
  /\ nmut = 0
  /\ op = "idle"
  /\ arg = <<>>
  /\ ret = <<>>
  /\ heap = <<ListObject(0)>>
  /\ compilers = [c \in Compilers |-> NewCompiler]

\* an object with a document column is loaded into the session
Load ==
  /\ op = "idle"
  /\ Len(docs) < MaxRows
  /\ docs' = Append(docs, Loaded)
  /\ UNCHANGED <<sa14, nmut, op, arg, ret, heap, compilers>>

\* doc[k] = v on a loaded object
DoSetItem ==
  /\ op = "idle"
  /\ \E i \in 1..Len(docs), k \in SubKeys, v \in SubVals :
       /\ nmut < MaxMutations
       /\ docs' = [docs EXCEPT ![i] = SetItem(docs[i], k, v)]
       /\ nmut' = nmut + 1
       /\ UNCHANGED <<sa14, op, arg, ret, heap, compilers>>

\* del doc[k] on a loaded object
DoDelItem ==
  /\ op = "idle"
  /\ \E i \in 1..Len(docs), k \in SubKeys :
       /\ nmut < MaxMutations
       /\ HasKey(docs[i].items, k)
       /\ docs' = [docs EXCEPT ![i] = DelItem(docs[i], k)]
       /\ nmut' = nmut + 1
       /\ UNCHANGED <<sa14, op, arg, ret, heap, compilers>>

\* rewrite_update called with the session's rows, or with no parameters
DoRewriteUpdate ==
  /\ op = "idle"
  /\ \E stmt \in UserStatements, shape \in Shapes, ord \in Orders(Deleted),
        empty \in BOOLEAN :
       LET multiparams == IF empty THEN <<>> ELSE <<Rows(shape)>>
       IN /\ op' = "rewrite_update"
          /\ arg' = [clauseelement |-> stmt, multiparams |-> multiparams,
                     params |-> PDict(<<>>)]
          /\ ret' = rewrite_update(stmt, multiparams, PDict(<<>>), ord)
          /\ UNCHANGED <<sa14, docs, nmut, heap, compilers>>

\* the before_execute event. Before SQLAlchemy 1.4 the rows arrive in
\* multiparams; from 1.4 on a single row arrives in params.
DoBeforeExecute ==
  /\ op = "idle"
  /\ \E stmt \in UserStatements, shape \in Shapes, ord \in Orders(Deleted),
        empty \in BOOLEAN :
       \E is_crate_update \in (IF shape = "doc" THEN BOOLEAN ELSE {TRUE}) :
         LET multiparams == IF sa14 \/ empty THEN <<>> ELSE <<Rows(shape)>>
             params == IF sa14 /\ ~empty /\ docs # <<>>
                       THEN PDict(Row(shape, docs[1])) ELSE PDict(<<>>)
         IN /\ op' = "crate_before_execute"
            /\ arg' = [is_crate_update |-> is_crate_update, clauseelement |-> stmt,
                       multiparams |-> multiparams, params |-> params]
            /\ ret' = crate_before_execute(is_crate_update, stmt, multiparams,
                                           params, ord)
            /\ UNCHANGED <<sa14, docs, nmut, heap, compilers>>

\* The statement is compiled. After the hook it is the statement the hook
\* returned, compiled for the keys of the first rewritten row; in the empty
\* session it is any statement, compiled with or without column keys (the
\* compiler never reads the session's documents).
DoVisitUpdate ==
  \E fresh \in BOOLEAN, for_executemany \in (IF sa14 THEN BOOLEAN ELSE {FALSE}) :
    LET hooked == op \in {"rewrite_update", "crate_before_execute"}
    IN \E update_stmt \in (IF fresh THEN UserStatements
                           ELSE IF hooked THEN {ret.clause} ELSE {}),
          column_keys \in (IF fresh THEN {NoneList, SomeList(<<X>>)}
                           ELSE IF hooked THEN {SomeList(KeySeq(FirstRow(ret)))}
                           ELSE {}) :
         /\ IF fresh THEN docs = <<>> /\ op \in {"idle", "visit_update"}
            ELSE ret.exc = "none"
         /\ op' = "visit_update"
         /\ arg' = [update_stmt |-> update_stmt, column_keys |-> column_keys,
                    for_executemany |-> for_executemany]
         /\ ret' = visit_update(update_stmt, column_keys, for_executemany)
         /\ UNCHANGED <<sa14, docs, nmut, heap, compilers>>

\* the caller takes the result; the session goes on
Return ==
  /\ op # "idle"
  /\ op' = "idle"
  /\ arg' = <<>>
  /\ ret' = <<>>
  /\ UNCHANGED <<sa14, docs, nmut, heap, compilers>>

Next ==
  \/ Load
  \/ DoSetItem
  \/ DoDelItem
  \/ DoRewriteUpdate
  \/ DoBeforeExecute
  \/ DoVisitUpdate
  \/ Return

Spec == Init /\ [][Next]_vars

\* ------------------------------------------- the resolvers called alone
Tables ==
  { <<>>, <<Column("x", FALSE)>>, <<Column("x", TRUE)>>, TableT,
    <<Column("x", FALSE), Column("y", TRUE)>> }

\* the values of a statement: none, empty, a column by name or by Column
\* object, a path key, a name that is no column of any table
ParameterDicts ==
  { <<>>,
    <<[k |-> X, v |-> Scalar(1)]>>,
    <<[k |-> ColumnKey("x"), v |-> Scalar(1)]>>,
    <<[k |-> PathKey(Doc, "a"), v |-> Scalar(2)]>>,
    <<[k |-> X, v |-> Scalar(1)], [k |-> PathKey(Doc, "a"), v |-> Scalar(2)]>>,
    <<[k |-> Str(<<"z">>), v |-> Scalar(1)]>> }

\* the parameter sets of a multi-row insert
MultiRows ==
  { <<<<[k |-> X, v |-> Scalar(1)]>>, <<[k |-> X, v |-> Scalar(2)]>>>>,
    <<<<[k |-> Str(<<"z">>), v |-> Scalar(1)]>>, <<[k |-> Str(<<"z">>), v |-> Scalar(2)]>>>>,
    <<<<>>, <<>>>> }

ColumnKeys ==
  { NoneList, SomeList(<<>>), SomeList(<<X>>), SomeList(<<X, Doc>>),
    SomeList(<<PathKey(Doc, "a")>>) }

\* the statements a resolver is given: an UPDATE or INSERT with or without
\* values, a multi-row INSERT, an INSERT from a SELECT naming column x
CrudStatements ==
  {Statement(isinsert, table, NoneDict, <<>>, <<>>, FALSE, FALSE) :
     isinsert \in BOOLEAN, table \in Tables}
  \cup {Statement(isinsert, table, Some(d), <<>>, <<>>, FALSE, FALSE) :
     isinsert \in BOOLEAN, table \in Tables, d \in ParameterDicts}
  \cup {Statement(TRUE, table, NoneDict, rows, <<>>, FALSE, FALSE) :
     table \in Tables, rows \in MultiRows}
  \cup {Statement(TRUE, table, Some(<<[k |-> X, v |-> None]>>), <<>>, <<"x">>,
                  FALSE, FALSE) : table \in Tables \ {<<>>}}

\* _get_crud_params, which needs SQLAlchemy below 1.4
DoGetCrudParams ==
  /\ op = "idle"
  /\ ~sa14
  /\ \E column_keys \in ColumnKeys, stmt \in CrudStatements :
       /\ op' = "_get_crud_params"
       /\ arg' = [column_keys |-> column_keys, for_executemany |-> FALSE, stmt |-> stmt]
       /\ ret' = _get_crud_params(column_keys, stmt)
       /\ UNCHANGED <<sa14, docs, nmut, heap, compilers>>

\* _get_crud_params_14, which needs SQLAlchemy 1.4
DoGetCrudParams14 ==
  /\ op = "idle"
  /\ sa14
  /\ \E column_keys \in ColumnKeys, stmt \in CrudStatements, for_executemany \in BOOLEAN :
       /\ op' = "_get_crud_params_14"
       /\ arg' = [column_keys |-> column_keys, for_executemany |-> for_executemany,
                  stmt |-> stmt]
       /\ ret' = _get_crud_params_14(column_keys, for_executemany, stmt)
       /\ UNCHANGED <<sa14, docs, nmut, heap, compilers>>

NextCrud ==
  \/ DoGetCrudParams
  \/ DoGetCrudParams14
  \/ Return

SpecCrud == Init /\ [][NextCrud]_vars

\* ------------------------------------------------- visit_insert called
Versions == {<<0, 54, 9>>, <<1, 0, 0>>, <<1, 0, 1>>, <<1, 0, 2>>, <<2, 0, 0>>}

Dialects ==
  [server_version_info : Versions, supports_default_values : BOOLEAN,
   supports_empty_insert : BOOLEAN, supports_multivalues_insert : BOOLEAN]

InsertTables == {<<Column("x", FALSE)>>, <<Column("x", FALSE), Column("y", TRUE)>>}

\* INSERTs without values, with a value for x or for an unknown name, with
\* two rows, and from a SELECT naming x; with or without prefixes and RETURNING
InsertStatements ==
  {[stmt EXCEPT !.prefixes = prefixes, !.returning = returning] :
     prefixes \in BOOLEAN, returning \in BOOLEAN,
     stmt \in {s \in CrudStatements :
                 /\ s.isinsert
                 /\ s.table \in InsertTables
                 /\ s.parameters.none \/ s.parameters.d \in
                      { <<[k |-> X, v |-> Scalar(1)]>>, <<[k |-> X, v |-> None]>>,
                        <<[k |-> Str(<<"z">>), v |-> Scalar(1)]>> }}}

DoVisitInsert ==
  /\ op = "idle"
  /\ \E insert_stmt \in InsertStatements, dialect \in Dialects,
        column_keys \in {NoneList, SomeList(<<>>), SomeList(<<X>>)}, precedes \in BOOLEAN :
       /\ op' = "visit_insert"
       /\ arg' = [insert_stmt |-> insert_stmt, dialect |-> dialect,
                  column_keys |-> column_keys, precedes |-> precedes]
       /\ ret' = visit_insert(insert_stmt, dialect, column_keys, precedes)
       /\ UNCHANGED <<sa14, docs, nmut, heap, compilers>>

NextInsert ==
  \/ DoVisitInsert
  \/ Return

SpecInsert == Init /\ [][NextInsert]_vars

\* ------------------------------------------------- DDL options compiler
\* In post_create_table a str is a sequence of single characters, since the
\* code slices, uppercases and sorts strings there.

\* the characters of the option names, values and templates, in code point
\* order (the order in which Python compares str)
Alphabet ==
  <<" ", "(", ")", ",", "0", "1", "2", "3", "4", "5", "6", "7", "8", "9",
    "=", "A", "B", "C", "D", "E", "F", "G", "H", "I", "J", "K", "L", "M",
    "N", "O", "P", "Q", "R", "S", "T", "U", "V", "W", "X", "Y", "Z", "_",
    "a", "b", "c", "d", "e", "f", "g", "h", "i", "j", "k", "l", "m", "n",
    "o", "p", "q", "r", "s", "t", "u", "v", "w", "x", "y", "z">>

Ord(c) == CHOOSE i \in 1..Len(Alphabet) : Alphabet[i] = c

Lowercase ==
  <<"a", "b", "c", "d", "e", "f", "g", "h", "i", "j", "k", "l", "m", "n",
    "o", "p", "q", "r", "s", "t", "u", "v", "w", "x", "y", "z">>

Uppercase ==
  <<"A", "B", "C", "D", "E", "F", "G", "H", "I", "J", "K", "L", "M", "N",
    "O", "P", "Q", "R", "S", "T", "U", "V", "W", "X", "Y", "Z">>

\* str.upper() of one character
UpperChar(c) ==
  IF \E i \in 1..Len(Lowercase) : Lowercase[i] = c
  THEN Uppercase[CHOOSE i \in 1..Len(Lowercase) : Lowercase[i] = c]
  ELSE c

\* str.upper()
Upper(s) == [i \in 1..Len(s) |-> UpperChar(s[i])]

\* str.startswith(prefix)
StartsWith(s, prefix) ==
  Len(s) >= Len(prefix) /\ SubSeq(s, 1, Len(prefix)) = prefix

\* a < b on str: the first differing character decides, a proper prefix is
\* smaller
StrLess(a, b) ==
  LET n == IF Len(a) < Len(b) THEN Len(a) ELSE Len(b)
      diff == {i \in 1..n : a[i] # b[i]}
  IN IF diff = {} THEN Len(a) < Len(b)
     ELSE LET i == CHOOSE i \in diff : \A j \in diff : i <= j
          IN Ord(a[i]) < Ord(b[i])

\* sorted() of a list of str
RECURSIVE Sorted(_)
Sorted(l) ==
  IF l = <<>> THEN <<>>
  ELSE LET m == CHOOSE i \in 1..Len(l) :
                  \A j \in 1..Len(l) : l[j] = l[i] \/ StrLess(l[i], l[j])
       IN <<l[m]>> \o Sorted(SubSeq(l, 1, m - 1) \o SubSeq(l, m + 1, Len(l)))

\* sep.join(parts) on str
RECURSIVE JoinStr(_, _)
JoinStr(parts, sep) ==
  IF parts = <<>> THEN <<>>
  ELSE IF Len(parts) = 1 THEN parts[1]
  ELSE parts[1] \o sep \o JoinStr(Tail(parts), sep)

\* 'PARTITIONED_BY', 'NUMBER_OF_SHARDS', 'CLUSTERED_BY' (lines 98, 101, 102)
PARTITIONED_BY ==
  <<"P", "A", "R", "T", "I", "T", "I", "O", "N", "E", "D", "_", "B", "Y">>

NUMBER_OF_SHARDS ==
  <<"N", "U", "M", "B", "E", "R", "_", "O", "F", "_", "S", "H", "A", "R",
    "D", "S">>

CLUSTERED_BY ==
  <<"C", "L", "U", "S", "T", "E", "R", "E", "D", "_", "B", "Y">>

\* lines 97-99: ' PARTITIONED BY ({0})'
special_opts_tmpl(k, v) ==
  <<" ", "P", "A", "R", "T", "I", "T", "I", "O", "N", "E", "D", " ", "B",
    "Y", " ", "(">> \o v \o <<")">>

\* lines 100-103: ' INTO {0} SHARDS' and ' BY ({0})'
clustered_opts_tmpl(k, v) ==
  IF k = NUMBER_OF_SHARDS
  THEN <<" ", "I", "N", "T", "O", " ">> \o v \o <<" ", "S", "H", "A", "R", "D", "S">>
  ELSE <<" ", "B", "Y", " ", "(">> \o v \o <<")">>

\* a defaultdict(str) read at k
DefaultGet(d, k) == IF HasKey(d, k) THEN Get(d, k) ELSE <<>>

\* line 104: ' CLUSTERED{CLUSTERED_BY}{NUMBER_OF_SHARDS}' filled from the
\* defaultdict (lines 130-131)
clustered_opt_tmpl(clustered_options) ==
  <<" ", "C", "L", "U", "S", "T", "E", "R", "E", "D">>
    \o DefaultGet(clustered_options, CLUSTERED_BY)
    \o DefaultGet(clustered_options, NUMBER_OF_SHARDS)

\* lines 117-121 without .upper(): the remainder of the key as it was given
RECURSIVE OptsAsGiven(_, _)
OptsAsGiven(kwargs, name) ==
  IF kwargs = <<>> THEN <<>>
  ELSE LET k == kwargs[Len(kwargs)].k
           v == kwargs[Len(kwargs)].v
           before == OptsAsGiven(SubSeq(kwargs, 1, Len(kwargs) - 1), name)
       IN IF StartsWith(k, name \o <<"_">>)
          THEN Put(before, SubSeq(k, Len(name) + 2, Len(k)), v)
          ELSE before

\* lines 117-121: the options of this dialect, prefix cut off, uppercased;
\* dict() keeps the first position of a repeated key and its last value
RECURSIVE Opts(_, _)
Opts(kwargs, name) ==
  IF kwargs = <<>> THEN <<>>
  ELSE LET k == kwargs[Len(kwargs)].k
           v == kwargs[Len(kwargs)].v
           before == Opts(SubSeq(kwargs, 1, Len(kwargs) - 1), name)
       IN IF StartsWith(k, name \o <<"_">>)
          THEN Put(before, Upper(SubSeq(k, Len(name) + 2, Len(k))), v)
          ELSE before

\* lines 113-115 and 122-128: the three accumulators after the loop
RECURSIVE LoopOpts(_)
LoopOpts(opts) ==
  IF opts = <<>>
  THEN [special_options |-> <<>>, clustered_options |-> <<>>, table_opts |-> <<>>]
  ELSE LET k == opts[Len(opts)].k
           v == opts[Len(opts)].v
           acc == LoopOpts(SubSeq(opts, 1, Len(opts) - 1))
       IN IF k = PARTITIONED_BY
          THEN [acc EXCEPT !.special_options = @ \o special_opts_tmpl(k, v)]
          ELSE IF k \in {NUMBER_OF_SHARDS, CLUSTERED_BY}
          THEN [acc EXCEPT !.clustered_options = Put(@, k, clustered_opts_tmpl(k, v))]
          ELSE [acc EXCEPT !.table_opts =
                  Append(@, k \o <<" ", "=", " ">> \o v)]

\* lines 129-135 with the WITH block put in front
EmitClausesWithFirst(acc) ==
  LET special_options ==
        IF acc.clustered_options # <<>>
        THEN acc.special_options \o clustered_opt_tmpl(acc.clustered_options)
        ELSE acc.special_options
  IN IF acc.table_opts # <<>>
     THEN <<" ", "W", "I", "T", "H", " ", "(">>
            \o JoinStr(Sorted(acc.table_opts), <<",", " ">>) \o <<")">>
            \o special_options
     ELSE special_options

\* lines 129-135
EmitClauses(acc) ==
  LET special_options ==
        IF acc.clustered_options # <<>>
        THEN acc.special_options \o clustered_opt_tmpl(acc.clustered_options)
        ELSE acc.special_options
  IN IF acc.table_opts # <<>>
     THEN special_options \o <<" ", "W", "I", "T", "H", " ", "(">>
            \o JoinStr(Sorted(acc.table_opts), <<",", " ">>) \o <<")">>
     ELSE special_options

\* lines 112-135. kwargs is table.kwargs in its iteration order, name is
\* self.dialect.name
post_create_table(kwargs, name) == EmitClauses(LoopOpts(Opts(kwargs, name)))

\* ------------------------------------------------------ DDL specification
MaxOptions == 4

\* str(v) of an option value
Option(k, v) == [k |-> k, v |-> v]

\* the keyword options a table may be created with
OptionPool ==
  { Option(<<"c", "r", "a", "t", "e", "_", "p", "a", "r", "t", "i", "t", "i", "o", "n", "e", "d", "_", "b", "y">>,
           <<"r", "e", "g", "i", "o", "n">>),
    Option(<<"c", "r", "a", "t", "e", "_", "c", "l", "u", "s", "t", "e", "r", "e", "d", "_", "b", "y">>,
           <<"i", "d">>),
    Option(<<"c", "r", "a", "t", "e", "_", "n", "u", "m", "b", "e", "r", "_", "o", "f", "_", "s", "h", "a", "r", "d", "s">>,
           <<"4">>),
    Option(<<"c", "r", "a", "t", "e", "_", "r", "e", "f", "r", "e", "s", "h", "_", "i", "n", "t", "e", "r", "v", "a", "l">>,
           <<"5", "0", "0">>),
    Option(<<"m", "y", "s", "q", "l", "_", "e", "n", "g", "i", "n", "e">>,
           <<"x">>),
    Option(<<"c", "r", "a", "t", "e", "_", "a">>, <<"1">>),
    Option(<<"c", "r", "a", "t", "e", "_", "a", "b">>, <<"2">>),
    Option(<<"c", "r", "a", "t", "e", "_", "a", " ", "1">>, <<"3">>) }

\* table.kwargs: every choice of at most MaxOptions options in every
\* iteration order
Kwargs ==
  {kw \in UNION {[1..n -> OptionPool] : n \in 0..MaxOptions} :
     \A i, j \in 1..Len(kw) : i # j => kw[i].k # kw[j].k}

DialectNames == {<<"c", "r", "a", "t", "e">>}

DoPostCreateTable ==
  /\ op = "idle"
  /\ \E kwargs \in Kwargs, name \in DialectNames :
       /\ op' = "post_create_table"
       /\ arg' = [kwargs |-> kwargs, name |-> name]
       /\ ret' = post_create_table(kwargs, name)
       /\ UNCHANGED <<sa14, docs, nmut, heap, compilers>>

NextDDL ==
  \/ DoPostCreateTable
  \/ Return

SpecDDL == Init /\ [][NextDDL]_vars

\* ----------------------------------------------------------- type compiler
\* lines 140-168: the text of a type that is no array, by its visit name
visit_scalar(visit_name) ==
  CASE visit_name \in {"string", "unicode", "TEXT"} -> "STRING"
    [] visit_name = "DECIMAL" -> "DOUBLE"
    [] visit_name \in {"BIGINT", "NUMERIC"} -> "LONG"
    [] visit_name = "INTEGER" -> "INT"
    [] visit_name = "SMALLINT" -> "SHORT"
    [] OTHER -> "TIMESTAMP"

\* what the type compiler returns: the type text, or the exception raised
TypeText(text) == [exc |-> "none", text |-> text]

TypeFailed(exc) == [exc |-> exc, text |-> <<>>]

\* an ARRAY type: dimensions is None or a number, item_type the visit name of
\* the item type
ArrayType(dimensions, item_type) ==
  [dimensions |-> dimensions, item_type |-> item_type]

NoDimensions == [none |-> TRUE, n |-> 0]

Dimensions(n) == [none |-> FALSE, n |-> n]

\* lines 170-174 without the test of the dimensions
visit_ARRAY_flattened(type_) ==
  TypeText(<<"ARRAY(", visit_scalar(type_.item_type), ")">>)

\* lines 170-174
visit_ARRAY(type_) ==
  IF ~type_.dimensions.none /\ type_.dimensions.n > 1
  THEN TypeFailed("NotImplementedError")
  ELSE TypeText(<<"ARRAY(", visit_scalar(type_.item_type), ")">>)

MaxDimensions == 4

ItemTypes ==
  {"string", "unicode", "TEXT", "DECIMAL", "BIGINT", "NUMERIC", "INTEGER",
   "SMALLINT", "datetime", "date"}

ArrayTypes ==
  {ArrayType(d, t) :
     d \in {NoDimensions} \cup {Dimensions(n) : n \in 0..MaxDimensions},
     t \in ItemTypes}

DoVisitARRAY ==
  /\ op = "idle"
  /\ \E type_ \in ArrayTypes :
       /\ op' = "visit_ARRAY"
       /\ arg' = [type_ |-> type_]
       /\ ret' = visit_ARRAY(type_)
       /\ UNCHANGED <<sa14, docs, nmut, heap, compilers>>

NextType ==
  \/ DoVisitARRAY
  \/ Return

SpecType == Init /\ [][NextType]_vars

\* ------------------------------------------------ concurrent compilations
MaxAppends == 2

\* lines 409-412 and 611-614: the resolver gives the compiler four new lists
ResolverEntry(c) ==
  /\ op = "idle"
  /\ compilers[c].pc = "start"
  /\ heap' = heap \o <<ListObject(c), ListObject(c), ListObject(c), ListObject(c)>>
  /\ compilers' = [compilers EXCEPT
       ![c].pc = "scan",
       ![c].attrs = [a \in Accumulators |->
          CASE a = "postfetch" -> Len(heap) + 1
            [] a = "insert_prefetch" -> Len(heap) + 2
            [] a = "update_prefetch" -> Len(heap) + 3
            [] a = "returning" -> Len(heap) + 4
            [] OTHER -> @[a]]]
  /\ UNCHANGED <<sa14, docs, nmut, op, arg, ret>>

\* the accumulators the column scan of the library appends to: before
\* SQLAlchemy 1.1 it appends to compiler.prefetch, from 1.1 on to
\* insert_prefetch and update_prefetch (line 429 tells the two apart)
ScanTargets == IF sa14 THEN Accumulators \ {"prefetch"} ELSE Accumulators

\* lines 456-458 and 711-722: the column scan appends a column to one of the
\* compiler's accumulators
ScanAppend(c) ==
  /\ op = "idle"
  /\ compilers[c].pc = "scan"
  /\ \E a \in ScanTargets :
       LET id == Lookup(c, a)
       IN /\ Cardinality({i \in 1..Len(heap) :
                \E j \in 1..Len(heap[i].items) : heap[i].items[j] = c}) < MaxAppends
          /\ \A j \in 1..Len(heap[id].items) : heap[id].items[j] # c
          /\ heap' = [heap EXCEPT ![id].items = Append(@, c)]
          /\ compilers' = [compilers EXCEPT ![c].touched = @ \cup {id}]
  /\ UNCHANGED <<sa14, docs, nmut, op, arg, ret>>

\* the compilation ends and its accumulators are read: the entries found in
\* them, each named by the compiler that appended it
Finish(c) ==
  /\ op = "idle"
  /\ compilers[c].pc = "scan"
  /\ compilers' = [compilers EXCEPT
       ![c].pc = "done",
       ![c].touched = @ \cup {Lookup(c, a) : a \in Accumulators},
       ![c].seen = UNION {{heap[Lookup(c, a)].items[j] :
                             j \in 1..Len(heap[Lookup(c, a)].items)} :
                          a \in Accumulators}]
  /\ UNCHANGED <<sa14, docs, nmut, op, arg, ret, heap>>

NextThreads ==
  \/ \E c \in Compilers : ResolverEntry(c)
  \/ \E c \in Compilers : ScanAppend(c)
  \/ \E c \in Compilers : Finish(c)

SpecThreads == Init /\ [][NextThreads]_vars

\* --------------------------------------------------------------- claims
\* the rows rewrite_update was given and the rows it returned
RewriteCall == op = "rewrite_update" /\ arg.multiparams # <<>>

\* the keys of a rewritten row that are path entries of the column key
PathEntriesOf(row, key) ==
  {row[j].k : j \in {j \in 1..Len(row) :
     /\ row[j].k.isstr
     /\ Len(row[j].k.s) = Len(key.s) + 3
     /\ SubSeq(row[j].k.s, 1, Len(key.s) + 1) = key.s \o <<"['">>}}

\* the keys a document has changed or deleted, each as the path of column key
ExpectedPaths(key, val) ==
  {Str(key.s \o <<"['", k, "']">>) : k \in val.changed \cup val.deleted}

\* row holds, for the document val bound to key, exactly one path entry per
\* changed key with its current value, one per deleted key with None, and
\* no entry under key itself
PartialUpdateOf(row, key, val) ==
  /\ PathEntriesOf(row, key) = ExpectedPaths(key, val)
  /\ \A k \in val.changed :
       /\ HasKey(val.items, k)
       /\ HasKey(row, Str(key.s \o <<"['", k, "']">>))
       /\ Get(row, Str(key.s \o <<"['", k, "']">>)) = Get(val.items, k)
  /\ \A k \in val.deleted :
       /\ HasKey(row, Str(key.s \o <<"['", k, "']">>))
       /\ Get(row, Str(key.s \o <<"['", k, "']">>)) = None
  /\ ~HasKey(row, key)

\* a tracked document the claim C1 speaks of
Modified(val) ==
  /\ val.kind = "doc"
  /\ val.changed \cap val.deleted = {}
  /\ val.changed \cup val.deleted # {}

\* C1: for every row given to rewrite_update and every parameter of it bound
\* to a tracked document with disjoint, not both empty changed and deleted key
\* sets, the rewritten row holds exactly one path entry <column>['<key>'] per
\* changed key, bound to its current value, and one per deleted key, bound to
\* null, no entry for an unchanged key and none under the column name.
C1_PathEntries ==
  (RewriteCall /\ ret.exc = "none" /\ arg.multiparams[1] # <<>>) =>
    \A i \in 1..Len(arg.multiparams[1]) :
      \A j \in 1..Len(arg.multiparams[1][i]) :
        LET e == arg.multiparams[1][i][j]
        IN Modified(e.v) => PartialUpdateOf(ret.multiparams[1][i], e.k, e.v)

\* C1 restricted to documents that changed or deleted a non-empty key: the
\* rewrite the code does perform is the one the claim describes
C1_TruthyKeys ==
  (RewriteCall /\ ret.exc = "none" /\ arg.multiparams[1] # <<>>) =>
    \A i \in 1..Len(arg.multiparams[1]) :
      \A j \in 1..Len(arg.multiparams[1][i]) :
        LET e == arg.multiparams[1][i][j]
        IN (Modified(e.v) /\ (e.v.changed \cup e.v.deleted) # {""})
             => PartialUpdateOf(ret.multiparams[1][i], e.k, e.v)

\* every bound value is no tracked document, or one with nothing changed and
\* nothing deleted
Unmodified(rows) ==
  \A i \in 1..Len(rows) : \A j \in 1..Len(rows[i]) :
    rows[i][j].v.kind = "doc" =>
      (rows[i][j].v.changed = {} /\ rows[i][j].v.deleted = {})

\* the call returned what it was given: the same statement object (no values
\* applied, no marker set) and the same parameters
ReturnedUnmodified ==
  /\ ret.exc = "none"
  /\ ret.clause = arg.clauseelement
  /\ ret.multiparams = arg.multiparams
  /\ ret.params = arg.params

\* C2: when every bound value given to rewrite_update is no tracked document
\* or a tracked document with empty changed and deleted sets, the rewrite is
\* the identity: the same statement and the same parameters are returned.
C2_Identity ==
  (RewriteCall /\ Unmodified(arg.multiparams[1])) => ReturnedUnmodified

\* the call was given no parameters at all
EmptyParameterSet ==
  /\ arg.multiparams = <<>> \/ arg.multiparams[1] = <<>>
  /\ arg.params = PDict(<<>>)

\* C9: invoked with an empty parameter set, directly or through the
\* before_execute hook for an UPDATE on the Crate dialect, the rewrite step
\* returns the statement it was given, unmodified, with the parameters as
\* they were.
C9_EmptyUnmodified ==
  ( /\ \/ op = "rewrite_update"
       \/ op = "crate_before_execute" /\ arg.is_crate_update
    /\ EmptyParameterSet ) => ReturnedUnmodified

\* C9 for the one call the early return of line 52 serves: rewrite_update
\* given a tuple holding an empty list of rows
C9_EmptyList ==
  (op = "rewrite_update" /\ arg.multiparams # <<>> /\ arg.multiparams[1] = <<>>)
    => ReturnedUnmodified

\* C3 as claimed: under one configuration any two UPDATE statements are
\* compiled by the same path, whatever their shape.
C3_SamePath ==
  [][(op = "visit_update" /\ op' = "visit_update") => ret'.path = ret.path]_vars

\* C3 as amended: from SQLAlchemy 1.4 on every UPDATE takes the custom path;
\* before 1.4 an UPDATE without parameters and without the rewrite marker
\* takes the inherited path and every other UPDATE the custom path.
C3_PathRule ==
  op = "visit_update" =>
    ret.path = IF \/ sa14
                  \/ (~arg.update_stmt.parameters.none
                      /\ arg.update_stmt.parameters.d # <<>>)
                  \/ arg.update_stmt.crate_specific
               THEN "custom" ELSE "default"

C3_Witness ==
  /\ op = "visit_update"
  /\ ~sa14
  /\ ret.exc = "none"
  /\ ret.path = "default"

\* the positions of the statement's dict parameters whose key is a string
\* holding a bracket
PathPositions(parameters) ==
  {i \in 1..Len(parameters) :
     parameters[i].k.isstr /\ "['" \in {parameters[i].k.s[c] : c \in 1..Len(parameters[i].k.s)}}

\* the j-th of them in the dict's order
NthPath(parameters, j) ==
  CHOOSE i \in PathPositions(parameters) :
    Cardinality({p \in PathPositions(parameters) : p < i}) = j - 1

\* the SET clause of a custom-path compilation is the resolver's entries in
\* resolver order, then `<raw-key> = ?` for each path key in dict order
SetClauseShape ==
  LET parameters == arg.update_stmt.parameters.d
      n == Len(ret.crud_params)
      m == Cardinality(PathPositions(parameters))
  IN /\ Len(ret.set_clauses) = n + m
     /\ \A i \in 1..n :
          ret.set_clauses[i] = <<ret.crud_params[i].c, " = ", ret.crud_params[i].v>>
     /\ \A j \in 1..m :
          ret.set_clauses[n + j] = parameters[NthPath(parameters, j)].k.s \o <<" = ", "?">>
     /\ \A i \in 1..n : "['" # ret.crud_params[i].c

\* the statement compiled is the hook's rewrite of a row whose document
\* changed key a and deleted key b
ChangedADeletedB ==
  /\ op = "visit_update"
  /\ ret.exc = "none"
  /\ arg.update_stmt.crate_specific
  /\ docs # <<>>
  /\ docs[1].changed = {"a"}
  /\ docs[1].deleted = {"b"}
  /\ HasKey(arg.update_stmt.parameters.d, Str(<<"doc", "['", "a", "']">>))
  /\ HasKey(arg.update_stmt.parameters.d, Str(<<"doc", "['", "b", "']">>))

\* C4: the SET clause of visit_update and visit_update_14 holds the
\* assignments of the resolved crud parameter entries first, in resolver
\* order, then one `<raw-key> = <bind>` for each dict parameter whose key is a
\* string containing '[' and for no other key; a document doc with changed key
\* a and deleted key b yields doc['a'] = ?, doc['b'] = ? and no assignment to
\* doc as a whole.
C4_SetClause ==
  /\ (op = "visit_update" /\ ret.exc = "none" /\ ret.path = "custom")
       => SetClauseShape
  /\ ChangedADeletedB =>
       /\ \E i \in 1..(Len(ret.set_clauses) - 1) :
            /\ ret.set_clauses[i] = <<"doc", "['", "a", "']", " = ", "?">>
            /\ ret.set_clauses[i + 1] = <<"doc", "['", "b", "']", " = ", "?">>
       /\ \A i \in 1..Len(ret.set_clauses) :
            ret.set_clauses[i] # <<"doc", " = ", "?">>

C4_Witness ==
  /\ ChangedADeletedB
  /\ ret.path = "custom"
  /\ Len(ret.crud_params) > 0

\* a resolver was called
ResolverCall == op \in {"_get_crud_params", "_get_crud_params_14"}

\* the explicit parameters of the statement the resolver was given
StmtParameters(stmt) ==
  IF stmt.has_multi THEN stmt.rows[1]
  ELSE IF stmt.parameters.none THEN <<>> ELSE stmt.parameters.d

ColumnNames(stmt) == {stmt.table[i].name : i \in 1..Len(stmt.table)}

\* the explicit parameter keys that name no column of the table
UnmappedKeys(stmt) ==
  {StmtParameters(stmt)[i].k : i \in {i \in 1..Len(StmtParameters(stmt)) :
     \A c \in ColumnNames(stmt) : StmtParameters(stmt)[i].k.s # <<c>>}}

\* every entry the resolver returned
EntriesOf(r) ==
  {r.values[i] : i \in 1..Len(r.values)}
  \cup UNION {{r.rows[j][i] : i \in 1..Len(r.rows[j])} : j \in 1..Len(r.rows)}

\* C5 as claimed: resolving a statement with an explicit parameter key that
\* maps to no declared or table column raises a configuration error
\* (unconsumed column names) instead of returning an entry list.
C5_Raises ==
  (ResolverCall /\ UnmappedKeys(arg.stmt) # {}) => ret.exc = "CompileError"

\* C5 as amended: such a key raises no configuration error in either
\* resolver; it is left out of the entry list that is returned, whose entries
\* all name columns of the table.
C5_SilentlyDropped ==
  (ResolverCall /\ UnmappedKeys(arg.stmt) # {}) =>
    /\ ret.exc # "CompileError"
    /\ \A e \in EntriesOf(ret) : e.c \in ColumnNames(arg.stmt)

C5_Witness ==
  /\ op = "_get_crud_params_14"
  /\ Str(<<"doc", "['", "a", "']">>) \in UnmappedKeys(arg.stmt)
  /\ ret.exc = "none"
  /\ Len(ret.values) = 1

\* the result holds a DEFAULT entry
HasDefaultEntry == \E e \in EntriesOf(ret) : e.v = "DEFAULT"

\* the resolver returned at once with a bind for every column (lines 629-637)
EarlyReturn ==
  arg.column_keys.none /\ ~arg.stmt.has_multi /\ arg.stmt.parameters.none

\* C8 as claimed: the (first_column, DEFAULT) entry is synthesized only when
\* scanning produced no entries, the statement targets exactly one column, it
\* is not multi-row and the compilation is in executemany mode.
C8_OnlyOneColumn ==
  (ResolverCall /\ HasDefaultEntry) =>
    /\ ret.scanned = <<>>
    /\ Len(arg.stmt.table) = 1
    /\ ~arg.stmt.has_multi
    /\ arg.for_executemany

\* C8 as amended: _get_crud_params_14 synthesizes the entry exactly when it
\* did not return early, scanning produced no entries, the statement is not
\* multi-row, the compilation is in executemany mode and the table has a
\* first column, however many columns it has; the result is then that one
\* entry. _get_crud_params never synthesizes it.
C8_Fallback ==
  ResolverCall =>
    /\ HasDefaultEntry <=>
         /\ op = "_get_crud_params_14"
         /\ ~EarlyReturn
         /\ ret.scanned = <<>>
         /\ ~arg.stmt.has_multi
         /\ arg.for_executemany
         /\ arg.stmt.table # <<>>
    /\ HasDefaultEntry =>
         /\ ret.exc = "none"
         /\ ret.rows = <<>>
         /\ ret.values = <<[c |-> arg.stmt.table[1].name, v |-> "DEFAULT", val |-> None]>>
    /\ ~HasDefaultEntry => (ret.exc = "none" => ret.values = ret.scanned)

C8_Witness ==
  /\ op = "_get_crud_params_14"
  /\ HasDefaultEntry
  /\ Len(arg.stmt.table) = 2

\* visit_insert compiled an INSERT ... SELECT
FromSelect == op = "visit_insert" /\ arg.insert_stmt.select_names # <<>>

\* the server version is below (1, 0, 1)
BelowThreshold(v) ==
  \/ v[1] < 1
  \/ v[1] = 1 /\ v[2] < 0
  \/ v[1] = 1 /\ v[2] = 0 /\ v[3] < 1

\* the SELECT stands in parentheses, or bare after a blank
Parenthesized(text) ==
  /\ \E i \in 1..(Len(text) - 1) : text[i] = " (" /\ text[i + 1] = "SELECT "
  /\ \E j \in 2..(Len(text) - 1) :
       text[j - 1] = " FROM " /\ text[j] = "s" /\ text[j + 1] = ")"

Unparenthesized(text) ==
  /\ \E i \in 1..(Len(text) - 1) : text[i] = " " /\ text[i + 1] = "SELECT "
  /\ \A i \in 1..(Len(text) - 1) : ~(text[i] = " (" /\ text[i + 1] = "SELECT ")
  /\ \A j \in 2..Len(text) :
       (text[j - 1] = " FROM " /\ text[j] = "s") =>
         (j = Len(text) \/ text[j + 1] # ")")

\* INSERT INTO t (x) SELECT x FROM s with nothing else about it
PlainInsertFromSelect ==
  /\ FromSelect
  /\ arg.insert_stmt.table = <<[name |-> "x", default |-> FALSE]>>
  /\ ~arg.insert_stmt.prefixes
  /\ ~arg.insert_stmt.returning

\* C6 as claimed: visit_insert on an INSERT ... SELECT puts the SELECT in
\* parentheses whenever the server version is below (1, 0, 1), and delegates
\* to the inherited compilation, without parentheses, at or above it.
C6_ByServerVersion ==
  FromSelect =>
    IF BelowThreshold(arg.dialect.server_version_info)
    THEN ret.exc = "none" /\ Parenthesized(ret.text)
    ELSE ret.exc = "none" /\ ret.path = "super" /\ Unparenthesized(ret.text)

\* C6 as amended: below (1, 0, 1) the SELECT is put in parentheses only under
\* SQLAlchemy before 1.4; under 1.4 the call raises DeprecationWarning and
\* returns no text. At or above (1, 0, 1) it delegates to the inherited
\* compilation, which writes the SELECT without parentheses.
C6_ByServerAndLibraryVersion ==
  FromSelect =>
    IF BelowThreshold(arg.dialect.server_version_info)
    THEN IF sa14
         THEN ret.exc = "DeprecationWarning" /\ ret.text = <<>>
         ELSE /\ ret.exc = "none"
              /\ ret.path = "legacy"
              /\ Parenthesized(ret.text)
              /\ PlainInsertFromSelect =>
                   ret.text = <<"INSERT ", "INTO ", "t", " (", "x", ")",
                                " (", "SELECT ", "x", " FROM ", "s", ")">>
    ELSE /\ ret.exc = "none"
         /\ ret.path = "super"
         /\ Unparenthesized(ret.text)
         /\ PlainInsertFromSelect =>
              ret.text = <<"INSERT ", "INTO ", "t", " (", "x", ")",
                           " ", "SELECT ", "x", " FROM ", "s">>

C6_Witness ==
  /\ PlainInsertFromSelect
  /\ ~sa14
  /\ arg.dialect.server_version_info = <<1, 0, 0>>
  /\ ret.text = <<"INSERT ", "INTO ", "t", " (", "x", ")",
                  " (", "SELECT ", "x", " FROM ", "s", ")">>

\* visit_insert went past the version checks into its own compilation, and
\* the resolver returned
LegacyInsert ==
  /\ op = "visit_insert"
  /\ ~sa14
  /\ BelowThreshold(arg.dialect.server_version_info)
  /\ ret.crud_params.exc = "none"

OptionNames ==
  {Upper(SubSeq(arg.kwargs[i].k, Len(arg.name) + 2, Len(arg.kwargs[i].k))) :
     i \in {i \in 1..Len(arg.kwargs) :
              StartsWith(arg.kwargs[i].k, arg.name \o <<"_">>)}}

\* the positions at which sub occurs in text
Occurrences(text, sub) ==
  {i \in 1..(Len(text) - Len(sub) + 1) :
     SubSeq(text, i, i + Len(sub) - 1) = sub}

\* n occurrences exactly when present
Occurs(occ, present) == Cardinality(occ) = IF present THEN 1 ELSE 0

\* every position of before lies ahead of every position of after
Precedes(before, after) == \A i \in before, j \in after : i < j

\* C10: for every option map in every iteration order post_create_table
\* emits PARTITIONED BY first, then one CLUSTERED clause, then the WITH
\* block; each clause appears exactly when an option of its kind is present,
\* and inside the CLUSTERED clause BY (...) and INTO n SHARDS appear exactly
\* when their own option is present, BY ahead of INTO.
C10_ClauseOrder ==
  op = "post_create_table" =>
    LET partitioned == Occurrences(ret, <<" ", "P", "A", "R", "T", "I", "T", "I", "O", "N", "E", "D", " ", "B", "Y", " ", "(">>)
        clustered == Occurrences(ret, <<" ", "C", "L", "U", "S", "T", "E", "R", "E", "D">>)
        by == Occurrences(ret, <<" ", "C", "L", "U", "S", "T", "E", "R", "E", "D", " ", "B", "Y", " ", "(">>)
        into == Occurrences(ret, <<" ", "I", "N", "T", "O", " ">>)
        shards == Occurrences(ret, <<" ", "S", "H", "A", "R", "D", "S">>)
        with == Occurrences(ret, <<" ", "W", "I", "T", "H", " ", "(">>)
        generic == OptionNames \ {PARTITIONED_BY, CLUSTERED_BY, NUMBER_OF_SHARDS}
    IN /\ Occurs(partitioned, PARTITIONED_BY \in OptionNames)
       /\ Occurs(clustered, {CLUSTERED_BY, NUMBER_OF_SHARDS} \cap OptionNames # {})
       /\ Occurs(by, CLUSTERED_BY \in OptionNames)
       /\ Occurs(into, NUMBER_OF_SHARDS \in OptionNames)
       /\ Occurs(shards, NUMBER_OF_SHARDS \in OptionNames)
       /\ Occurs(with, generic # {})
       /\ by \subseteq clustered
       /\ by = {} => \A c \in clustered : c + Len(<<" ", "C", "L", "U", "S", "T", "E", "R", "E", "D">>) \in into
       /\ Precedes(partitioned, clustered)
       /\ Precedes(partitioned, with)
       /\ Precedes(clustered, into)
       /\ Precedes(by, into)
       /\ Precedes(into, shards)
       /\ Precedes(shards, with)
       /\ Precedes(clustered, with)
       /\ partitioned \subseteq {1}
       /\ partitioned = {} => clustered \subseteq {1}
       /\ (partitioned = {} /\ clustered = {}) => with \subseteq {1}
       /\ with # {} => ret[Len(ret)] = ")"

\* all three clauses, from a map that iterates in the opposite order
C10_Witness ==
  /\ op = "post_create_table"
  /\ Len(arg.kwargs) = 4
  /\ StartsWith(arg.kwargs[1].k, <<"c", "r", "a", "t", "e", "_", "r", "e", "f", "r", "e", "s", "h">>)
  /\ StartsWith(arg.kwargs[2].k, <<"c", "r", "a", "t", "e", "_", "n", "u", "m", "b", "e", "r">>)
  /\ StartsWith(arg.kwargs[3].k, <<"c", "r", "a", "t", "e", "_", "c", "l", "u", "s", "t", "e", "r", "e", "d">>)
  /\ StartsWith(arg.kwargs[4].k, <<"c", "r", "a", "t", "e", "_", "p", "a", "r", "t", "i", "t", "i", "o", "n", "e", "d">>)
  /\ StartsWith(ret, <<" ", "P", "A", "R", "T", "I", "T", "I", "O", "N", "E", "D", " ", "B", "Y", " ", "(", "r", "e", "g", "i", "o", "n", ")", " ", "C", "L", "U", "S", "T", "E", "R", "E", "D", " ", "B", "Y", " ", "(", "i", "d", ")", " ", "I", "N", "T", "O", " ", "4", " ", "S", "H", "A", "R", "D", "S", " ", "W", "I", "T", "H", " ", "(">>)

\* the option map of the dialect: uppercased name and value of every option
\* that carries the dialect's prefix
OptionMap ==
  {[k |-> Upper(SubSeq(arg.kwargs[i].k, Len(arg.name) + 2, Len(arg.kwargs[i].k))),
    v |-> arg.kwargs[i].v] :
     i \in {i \in 1..Len(arg.kwargs) :
              StartsWith(arg.kwargs[i].k, arg.name \o <<"_">>)}}

REFRESH_INTERVAL ==
  <<"R", "E", "F", "R", "E", "S", "H", "_", "I", "N", "T", "E", "R", "V",
    "A", "L">>

\* post_create_table was given {PARTITIONED_BY: region, NUMBER_OF_SHARDS: 4,
\* CLUSTERED_BY: id, REFRESH_INTERVAL: 500}
ExampleOptions ==
  /\ op = "post_create_table"
  /\ OptionMap = {[k |-> PARTITIONED_BY, v |-> <<"r", "e", "g", "i", "o", "n">>],
                  [k |-> NUMBER_OF_SHARDS, v |-> <<"4">>],
                  [k |-> CLUSTERED_BY, v |-> <<"i", "d">>],
                  [k |-> REFRESH_INTERVAL, v |-> <<"5", "0", "0">>]}

\* ' PARTITIONED BY (region) CLUSTERED BY (id) INTO 4 SHARDS WITH ('
ExampleHead ==
  <<" ", "P", "A", "R", "T", "I", "T", "I", "O", "N", "E", "D", " ", "B",
    "Y", " ", "(", "r", "e", "g", "i", "o", "n", ")", " ", "C", "L", "U",
    "S", "T", "E", "R", "E", "D", " ", "B", "Y", " ", "(", "i", "d", ")",
    " ", "I", "N", "T", "O", " ", "4", " ", "S", "H", "A", "R", "D", "S",
    " ", "W", "I", "T", "H", " ", "(">>

\* C11 as claimed: for these options post_create_table returns exactly
\* ' PARTITIONED BY (region) CLUSTERED BY (id) INTO 4 SHARDS WITH
\* (refresh_interval = 500)', the WITH key in lower case.
C11_LowerCaseKey ==
  ExampleOptions =>
    ret = ExampleHead \o
            <<"r", "e", "f", "r", "e", "s", "h", "_", "i", "n", "t", "e",
              "r", "v", "a", "l", " ", "=", " ", "5", "0", "0", ")">>

\* C11 as amended: for these options, in every iteration order,
\* post_create_table returns exactly ' PARTITIONED BY (region) CLUSTERED BY
\* (id) INTO 4 SHARDS WITH (REFRESH_INTERVAL = 500)': the WITH key is the
\* uppercased option name.
C11_UpperCaseKey ==
  ExampleOptions =>
    ret = ExampleHead \o
            <<"R", "E", "F", "R", "E", "S", "H", "_", "I", "N", "T", "E",
              "R", "V", "A", "L", " ", "=", " ", "5", "0", "0", ")">>

C11_Witness ==
  /\ ExampleOptions
  /\ StartsWith(arg.kwargs[1].k, <<"c", "r", "a", "t", "e", "_", "n", "u", "m", "b", "e", "r">>)
  /\ StartsWith(arg.kwargs[2].k, <<"c", "r", "a", "t", "e", "_", "p", "a", "r", "t", "i", "t", "i", "o", "n", "e", "d">>)
  /\ ret[Len(ret)] = ")"
  /\ Occurrences(ret, REFRESH_INTERVAL) # {}

\* the options that go into the WITH block: neither special nor clustered
GenericOptions ==
  {e \in OptionMap : e.k \notin {PARTITIONED_BY, CLUSTERED_BY, NUMBER_OF_SHARDS}}

\* the positions in the returned text at which the item 'key = value' of the
\* option e begins, after the opening parenthesis or after a ', '
ItemPositions(e) ==
  {i \in Occurrences(ret, e.k \o <<" ", "=", " ">> \o e.v) :
     i > 1 /\ ret[i - 1] \in {"(", " "}}

\* the items of the given options stand in the text once each, in ascending
\* lexical order of their keys
KeysAscending(options) ==
  /\ \A e \in options : Cardinality(ItemPositions(e)) = 1
  /\ \A e, f \in options :
       StrLess(e.k, f.k) =>
         \A i \in ItemPositions(e), j \in ItemPositions(f) : i < j

\* C12: in the WITH block of post_create_table the generic options appear as
\* 'key = value' items whose keys ascend lexically, for every option map in
\* every iteration order, also when one key is a prefix of another.
C12_KeysAscending ==
  op = "post_create_table" => KeysAscending(GenericOptions)

\* C12 for option names without a blank: their items ascend by key
C12_IdentifierKeys ==
  op = "post_create_table" =>
    KeysAscending({e \in GenericOptions : \A i \in 1..Len(e.k) : e.k[i] # " "})

\* a key and a longer key that begins with it, given longer key first
C12_Witness ==
  /\ op = "post_create_table"
  /\ Len(arg.kwargs) = 2
  /\ arg.kwargs[1].k = <<"c", "r", "a", "t", "e", "_", "a", "b">>
  /\ arg.kwargs[2].k = <<"c", "r", "a", "t", "e", "_", "a">>
  /\ ret = <<" ", "W", "I", "T", "H", " ", "(", "A", " ", "=", " ", "1", ",", " ",
             "A", "B", " ", "=", " ", "2", ")">>

\* C13: visit_ARRAY raises an unsupported-feature error and produces no type
\* text whenever the dimensions are greater than one; when they are unset or
\* one it returns exactly ARRAY(<item type text>).
C13_ArrayDimensions ==
  op = "visit_ARRAY" =>
    LET dimensions == arg.type_.dimensions
    IN /\ (~dimensions.none /\ dimensions.n > 1) =>
            (ret.exc = "NotImplementedError" /\ ret.text = <<>>)
       /\ (dimensions.none \/ dimensions.n = 1) =>
            /\ ret.exc = "none"
            /\ ret.text = <<"ARRAY(", visit_scalar(arg.type_.item_type), ")">>

C13_Witness ==
  /\ op = "visit_ARRAY"
  /\ arg.type_ = ArrayType(Dimensions(2), "INTEGER")
  /\ ret.exc = "NotImplementedError"
  /\ ret.text = <<>>

\* C14: under any interleaving of two compilations on distinct compiler
\* instances every accumulator a compilation has read or appended to is a
\* list created for that compiler by its own resolver invocation, no list
\* (the class-level prefetch list included) has been touched by both, and
\* no compilation sees an entry that the other one appended.
C14_OwnAccumulators ==
  /\ \A c \in Compilers : \A id \in compilers[c].touched : heap[id].owner = c
  /\ \A c, d \in Compilers :
       c # d => compilers[c].touched \cap compilers[d].touched = {}
  /\ \A c \in Compilers : compilers[c].seen \subseteq {c}

\* C14 for the four lists the resolver creates: each is held by the compiler
\* that created it and by no other
C14_ResolverLists ==
  \A c \in Compilers : \A a \in Accumulators \ {"prefetch"} :
    compilers[c].pc # "start" =>
      /\ heap[Lookup(c, a)].owner = c
      /\ \A d \in Compilers \ {c} : \A b \in Accumulators : Lookup(d, b) # Lookup(c, a)

\* a finished compilation has seen, in its prefetch list, the entry that the
\* other compilation appended
C14_ForeignEntrySeen ==
  /\ compilers[1].pc = "scan"
  /\ compilers[2].pc = "done"
  /\ compilers[2].touched \cap compilers[1].touched = {1}
  /\ 1 \in compilers[2].seen

====
